---- MODULE Spec2Model ----
(***************************************************************************)
(* Model of scripts/generate-og.py: the rejection-sampling loop of         *)
(* generate_svg, the serialisation of the accepted dots into the SVG       *)
(* document, and _escape_xml.                                              *)
(*                                                                         *)
(* Arithmetic is exact.  A variate random() is v / VDen with v in          *)
(* 0 .. VDen-1, so it lies in [0, 1).  Positions are kept as numerators    *)
(* over VDen, radii as numerators over 10 * VDen^2 (r_min and r_max are    *)
(* given in tenths), opacities as numerators over 100 * FadeSpan * VDen.   *)
(***************************************************************************)
EXTENDS Integers, Sequences, FiniteSets, TLC

VARIABLES params, pc, dots, attempts, rnd, rejected, doc, text, escaped, escPc

vars == <<params, pc, dots, attempts, rnd, rejected, doc, text, escaped, escPc>>

(* ------------------------------ bounds --------------------------------- *)

\* largest dot_count explored
MaxDotCount == 2

\* resolution of random(): the variates are 0/VDen .. (VDen-1)/VDen
VDen == 8

\* longest input string given to _escape_xml
MaxLen == 3

(* ------------------------- program constants --------------------------- *)

AttemptFactor == 40

FadeStart == 6

FadeSpan == 64

OpacityFloor == 22

OpacityGain == 78

(* ------------------------------ inputs --------------------------------- *)

\* the two calls of generate_svg that are compared for determinism
Invocations == {1, 2}

\* the compiled-in defaults of generate_svg (radii in tenths)
Defaults ==
    [width |-> 1200, height |-> 630, seed |-> 20251214, dot_count |-> 850,
     r_min |-> 14, r_max |-> 52, safe_w |-> 980, safe_h |-> 250, safe_pad |-> 36]

\* a small canvas, so that samples fall inside the fade band; r_min > r_max
SmallCanvas ==
    [width |-> 160, height |-> 100, seed |-> 7, dot_count |-> 1,
     r_min |-> 52, r_max |-> 14, safe_w |-> 60, safe_h |-> 20, safe_pad |-> 5]

\* the safe zone is exactly the canvas: every sample is rejected
FullCover ==
    [width |-> 40, height |-> 40, seed |-> 3, dot_count |-> 1,
     r_min |-> 20, r_max |-> 20, safe_w |-> 40, safe_h |-> 40, safe_pad |-> 0]

\* a degenerate (negative) width: samples have negative edge distances
Degenerate ==
    [width |-> -100, height |-> 80, seed |-> 11, dot_count |-> 1,
     r_min |-> 10, r_max |-> 30, safe_w |-> 20, safe_h |-> 20, safe_pad |-> 0]

Configs == {Defaults, SmallCanvas, FullCover, Degenerate}

Inputs == {[c EXCEPT !.dot_count = n] : c \in Configs, n \in 0..MaxDotCount}

\* variates drawn for the positions: the two ends of [0, 1) and the middle
Variates == {0, VDen \div 2, VDen - 1}

\* variates drawn for the radius: the two ends of [0, 1)
UVariates == {0, VDen - 1}

(* ----------------------------- generate_svg ---------------------------- *)

Min(a, b) == IF a <= b THEN a ELSE b

Max(a, b) == IF a >= b THEN a ELSE b

\* rnd.uniform(a, b) = a + (b - a) * random(), as a numerator over VDen
Uniform(a, b, v) == a * VDen + (b - a) * v

\* the safe rectangle, doubled so that the division by 2 stays exact
SafeX0(p) == (p.width - p.safe_w) - 2 * p.safe_pad

SafeY0(p) == (p.height - p.safe_h) - 2 * p.safe_pad

SafeX1(p) == (p.width + p.safe_w) + 2 * p.safe_pad

SafeY1(p) == (p.height + p.safe_h) + 2 * p.safe_pad

InSafe_open(p, x, y) ==
    /\ SafeX0(p) * VDen < 2 * x /\ 2 * x < SafeX1(p) * VDen
    /\ SafeY0(p) * VDen < 2 * y /\ 2 * y < SafeY1(p) * VDen

\* safe_x0 <= x <= safe_x1 and safe_y0 <= y <= safe_y1  (x, y over VDen)
InSafe(p, x, y) ==
    /\ SafeX0(p) * VDen <= 2 * x /\ 2 * x <= SafeX1(p) * VDen
    /\ SafeY0(p) * VDen <= 2 * y /\ 2 * y <= SafeY1(p) * VDen

MaxAttempts_short(p) == p.dot_count * AttemptFactor - 1

MaxAttempts_offByOne(p) == p.dot_count * AttemptFactor + 1

MaxAttempts(p) == p.dot_count * AttemptFactor

LoopCond_inclusive(i) ==
    Len(dots[i]) <= params.dot_count /\ attempts[i] < MaxAttempts(params)

\* while len(dots) < dot_count and attempts < max_attempts
LoopCond(i) ==
    Len(dots[i]) < params.dot_count /\ attempts[i] < MaxAttempts(params)

Radius_noDifference(p, v) == p.r_min * VDen * VDen + p.r_max * v * v

\* r = r_min + (r_max - r_min) * u**2, as a numerator over 10 * VDen^2
Radius(p, v) == p.r_min * VDen * VDen + (p.r_max - p.r_min) * v * v

\* edge = min(x, y, width - x, height - y), as a numerator over VDen
Edge(p, x, y) ==
    Min(Min(x, y), Min(p.width * VDen - x, p.height * VDen - y))

Fade_noFloor(e) == Min(FadeSpan * VDen, e - FadeStart * VDen)

\* fade = max(0.0, min(1.0, (edge - 6.0) / 64.0)), over FadeSpan * VDen
Fade(e) == Max(0, Min(FadeSpan * VDen, e - FadeStart * VDen))

\* opacity = 0.22 + 0.78 * fade, as a numerator over 100 * FadeSpan * VDen
Opacity(e) == OpacityFloor * FadeSpan * VDen + OpacityGain * Fade(e)

\* the tuple appended to dots
Dot(p, x, y, vu) ==
    [x |-> x, y |-> y, r |-> Radius(p, vu), opacity |-> Opacity(Edge(p, x, y))]

DrawsUsed_eager(inside) == 3

\* variates consumed by one iteration: x, y, and u unless the sample is rejected
DrawsUsed(inside) == IF inside THEN 2 ELSE 3

\* One iteration of the while loop, for the variates vx, vy, vu.
Attempt(i, vx, vy, vu) ==
    /\ pc[i] = "loop"
    /\ LoopCond(i)
    /\ LET x == Uniform(0, params.width, vx)
           y == Uniform(0, params.height, vy)
           inside == InSafe(params, x, y)
       IN  /\ attempts' = [attempts EXCEPT ![i] = @ + 1]
           /\ rnd' = [rnd EXCEPT ![i] = @ + DrawsUsed(inside)]
           /\ IF inside
                 THEN /\ rejected' = [rejected EXCEPT ![i] = @ + 1]
                      /\ UNCHANGED dots
                 ELSE /\ dots' = [dots EXCEPT ![i] = Append(@, Dot(params, x, y, vu))]
                      /\ UNCHANGED rejected
    /\ UNCHANGED <<params, pc, doc, text, escaped, escPc>>

(* ------------------------------ _escape_xml ---------------------------- *)

\* a string is a sequence of one-character strings
Chars == {"&", "<", ">", "\"", "'", "a", ";"}

Amp == <<"&", "a", "m", "p", ";">>

Lt == <<"&", "l", "t", ";">>

Gt == <<"&", "g", "t", ";">>

Quot == <<"&", "q", "u", "o", "t", ";">>

Apos == <<"&", "a", "p", "o", "s", ";">>

\* str.replace(old, new) for a one-character old: every occurrence, left to right
RECURSIVE Replace(_, _, _)
Replace(s, old, new) ==
    IF s = <<>> THEN <<>>
    ELSE (IF Head(s) = old THEN new ELSE <<Head(s)>>) \o Replace(Tail(s), old, new)

EscapeXml_ampLast(s) ==
    Replace(Replace(Replace(Replace(Replace(s, "<", Lt), ">", Gt), "\"", Quot), "'", Apos), "&", Amp)

\* text.replace("&", ..).replace("<", ..).replace(">", ..).replace('"', ..).replace("'", ..)
EscapeXml(s) ==
    Replace(Replace(Replace(Replace(Replace(s, "&", Amp), "<", Lt), ">", Gt), "\"", Quot), "'", Apos)

(* ----------------------------- serialisation --------------------------- *)

\* n / d rounded to the nearest integer, ties to even (d > 0)
RoundHalfEven(n, d) ==
    LET q == n \div d
        r == n % d
    IN  IF 2 * r < d THEN q
        ELSE IF 2 * r > d THEN q + 1
        ELSE IF q % 2 = 0 THEN q ELSE q + 1

\* f"{n/d:.1f}", f"{n/d:.2f}", f"{n/d:.3f}": the number of tenths, hundredths, thousandths
Fmt1(n, d) == RoundHalfEven(n * 10, d)

Fmt2(n, d) == RoundHalfEven(n * 100, d)

Fmt3(n, d) == RoundHalfEven(n * 1000, d)

\* one <circle cx cy r fill="black" opacity /> line
Circle(d) ==
    [tag |-> "circle",
     attrs |-> <<Fmt1(d.x, VDen), Fmt1(d.y, VDen), Fmt2(d.r, 10 * VDen * VDen),
                 Fmt3(d.opacity, 100 * FadeSpan * VDen)>>,
     content |-> <<>>]

DotsSvg_dropLast(ds) == [k \in 1..(Len(ds) - 1) |-> Circle(ds[k])]

\* "\n".join(<circle .../> for (x, y, r, opacity) in dots)
DotsSvg(ds) == [k \in 1..Len(ds) |-> Circle(ds[k])]

Title == <<"P", "O", "I", "N", "T", "I", "L", "I", "S", "M">>

Subtitle ==
    <<"A", " ", "c", "a", "l", "m", ",", " ", "m", "o", "n", "o", "c", "h", "r", "o",
      "m", "e", " ", "s", "u", "r", "f", "a", "c", "e", " ", "t", "o", " ", "e", "x",
      "p", "l", "o", "r", "e", ".">>

\* title = _escape_xml("POINTILISM")
TitleText == EscapeXml(Title)

\* subtitle = _escape_xml("A calm, monochrome surface to explore.")
SubtitleText == EscapeXml(Subtitle)

Open(tag, attrs) == [tag |-> tag, attrs |-> attrs, content |-> <<>>]

\* the returned f-string, as the sequence of its elements in document order
Document(p, ds) ==
    <<Open("svg", <<p.width, p.height>>),
      Open("rect", <<p.width, p.height>>),
      Open("g", <<>>)>>
    \o DotsSvg(ds) \o
    <<Open("/g", <<>>),
      Open("g", <<>>),
      [tag |-> "text", attrs |-> <<Fmt1(p.width, 2), Fmt1(p.height - 44, 2)>>,
       content |-> TitleText],
      [tag |-> "text", attrs |-> <<Fmt1(p.width, 2), Fmt1(p.height + 124, 2)>>,
       content |-> SubtitleText],
      Open("/g", <<>>),
      Open("/svg", <<>>)>>

\* The loop has ended: build the document and return it.
Return(i) ==
    /\ pc[i] = "loop"
    /\ ~LoopCond(i)
    /\ doc' = [doc EXCEPT ![i] = Document(params, dots[i])]
    /\ pc' = [pc EXCEPT ![i] = "done"]
    /\ UNCHANGED <<params, dots, attempts, rnd, rejected, text, escaped, escPc>>

(* ------------------ one call, arbitrary random draws ------------------- *)

Idle == [i \in Invocations |-> "idle"]

NoDots == [i \in Invocations |-> <<>>]

Zero == [i \in Invocations |-> 0]

Init ==
    /\ params \in Inputs
    /\ pc = [Idle EXCEPT ![1] = "loop"]
    /\ dots = NoDots
    /\ attempts = Zero
    /\ rnd = Zero
    /\ rejected = Zero
    /\ doc = NoDots
    /\ text = <<>>
    /\ escaped = <<>>
    /\ escPc = "idle"

Sample == \E vx \in Variates, vy \in Variates, vu \in UVariates : Attempt(1, vx, vy, vu)

Finish == Return(1)

Next == Sample \/ Finish

Spec == Init /\ [][Next]_vars

\* the loop body and the return are ordinary sequential code: they run when enabled
FairSpec == Spec /\ WF_vars(Next)

(* ------------- two calls, one seeded pseudo-random source each --------- *)

Seeds == {20251214, 7, 8, 9}

Pos_global(i) == rnd[1] + rnd[2]

\* the number of variates the call's own Random(seed) has produced so far
Pos(i) == rnd[i]

\* the n-th variate of random.Random(seed): a fixed function of seed and n
Variate(seed, n) == ((seed % VDen) * n + (n * n) \div 3 + n \div 4) % VDen

SeededAttempt(i) ==
    Attempt(i, Variate(params.seed, Pos(i) + 1), Variate(params.seed, Pos(i) + 2),
               Variate(params.seed, Pos(i) + 3))

InitDet ==
    /\ params \in {[c EXCEPT !.seed = s] : c \in Inputs, s \in Seeds}
    /\ pc = [i \in Invocations |-> "loop"]
    /\ dots = NoDots
    /\ attempts = Zero
    /\ rnd = Zero
    /\ rejected = Zero
    /\ doc = NoDots
    /\ text = <<>>
    /\ escaped = <<>>
    /\ escPc = "idle"

NextDet == \E i \in Invocations : SeededAttempt(i) \/ Return(i)

SpecDet == InitDet /\ [][NextDet]_vars

(* ------------------------- _escape_xml on its own ---------------------- *)

RECURSIVE Strings(_)
Strings(n) ==
    IF n = 0 THEN {<<>>}
    ELSE Strings(n - 1) \cup {Append(s, c) : s \in {t \in Strings(n - 1) : Len(t) = n - 1}, c \in Chars}

InitEsc ==
    /\ params = Defaults
    /\ pc = Idle
    /\ dots = NoDots
    /\ attempts = Zero
    /\ rnd = Zero
    /\ rejected = Zero
    /\ doc = NoDots
    /\ text \in Strings(MaxLen)
    /\ escaped = <<>>
    /\ escPc = "call"

Escape ==
    /\ escPc = "call"
    /\ escaped' = EscapeXml(text)
    /\ escPc' = "return"
    /\ UNCHANGED <<params, pc, dots, attempts, rnd, rejected, doc, text>>

NextEsc == Escape

SpecEsc == InitEsc /\ [][NextEsc]_vars

(* ------------------------------ properties ----------------------------- *)

CountTag(d, tag) == Cardinality({k \in 1..Len(d) : d[k].tag = tag})

IsCircle(e) == e.tag = "circle"

\* the safe rectangle is the whole canvas or more
Covers(p) ==
    /\ p.width > 0 /\ p.height > 0
    /\ SafeX0(p) <= 0 /\ SafeX1(p) >= 2 * p.width
    /\ SafeY0(p) <= 0 /\ SafeY1(p) >= 2 * p.height

\* C1: every accepted dot has its centre strictly outside the closed safe
\* rectangle [safe_x0, safe_x1] x [safe_y0, safe_y1]; a sample inside it or on
\* its boundary is never appended.
C1_DotsOutsideSafeZone ==
    \A i \in Invocations : \A k \in 1..Len(dots[i]) :
        LET d == dots[i][k]
        IN  \/ 2 * d.x < SafeX0(params) * VDen
            \/ 2 * d.x > SafeX1(params) * VDen
            \/ 2 * d.y < SafeY0(params) * VDen
            \/ 2 * d.y > SafeY1(params) * VDen

C1_Witness ==
    /\ pc[1] = "done"
    /\ Len(dots[1]) >= 2
    /\ rejected[1] >= 1

\* C2: in every state of the loop, and in the returned document, the number
\* of accepted dots (circle elements) is at most dot_count.
C2_AtMostDotCount ==
    \A i \in Invocations :
        /\ Len(dots[i]) <= params.dot_count
        /\ pc[i] = "done" => CountTag(doc[i], "circle") <= params.dot_count

C2_Witness ==
    /\ pc[1] = "done"
    /\ params.dot_count >= 2
    /\ CountTag(doc[1], "circle") = params.dot_count

\* C3: the loop ends after at most dot_count * 40 attempts and generate_svg
\* then returns a document, whatever the draws are.
C3_Terminates ==
    /\ <>(pc[1] = "done")
    /\ [](attempts[1] <= params.dot_count * 40)

C3_Witness ==
    /\ pc[1] = "done"
    /\ params.dot_count >= 1
    /\ dots[1] = <<>>
    /\ attempts[1] = params.dot_count * 40
    /\ Len(doc[1]) > 0

\* C4 as stated: every accepted radius lies in [r_min, r_max], for all
\* positive r_min and r_max.
C4_RadiusInRange ==
    \A i \in Invocations : \A k \in 1..Len(dots[i]) :
        /\ params.r_min * VDen * VDen <= dots[i][k].r
        /\ dots[i][k].r <= params.r_max * VDen * VDen

\* C4 amended: every accepted radius lies between r_min and r_max, that is in
\* [r_min, r_max] when r_min <= r_max and in [r_max, r_min] otherwise.
C4_RadiusBetween ==
    \A i \in Invocations : \A k \in 1..Len(dots[i]) :
        /\ Min(params.r_min, params.r_max) * VDen * VDen <= dots[i][k].r
        /\ dots[i][k].r <= Max(params.r_min, params.r_max) * VDen * VDen

C4_Witness ==
    /\ params.r_min > params.r_max
    /\ \E k \in 1..Len(dots[1]) :
          /\ params.r_max * VDen * VDen < dots[1][k].r
          /\ dots[1][k].r < params.r_min * VDen * VDen

\* C5: every accepted opacity lies in [0.22, 1.0]; it is 1.0 when the dot is
\* at least 70 from every border and 0.22 when it is at most 6 from some
\* border (negative distances included).
C5_OpacityInRange ==
    \A i \in Invocations : \A k \in 1..Len(dots[i]) :
        LET d == dots[i][k]
            e == Edge(params, d.x, d.y)
        IN  /\ 22 * FadeSpan * VDen <= d.opacity
            /\ d.opacity <= 100 * FadeSpan * VDen
            /\ e >= 70 * VDen => d.opacity = 100 * FadeSpan * VDen
            /\ e <= 6 * VDen => d.opacity = 22 * FadeSpan * VDen

C5_Witness ==
    /\ \E k \in 1..Len(dots[1]) :
          Edge(params, dots[1][k].x, dots[1][k].y) >= 70 * VDen
    /\ \E k \in 1..Len(dots[1]) :
          Edge(params, dots[1][k].x, dots[1][k].y) <= 6 * VDen

\* C6: two calls with the same parameters and seed make the same accept and
\* reject steps and return the same document.
C6_Deterministic ==
    /\ attempts[1] = attempts[2] =>
          /\ dots[1] = dots[2]
          /\ rejected[1] = rejected[2]
          /\ rnd[1] = rnd[2]
    /\ (pc[1] = "done" /\ pc[2] = "done") =>
          /\ attempts[1] = attempts[2]
          /\ doc[1] = doc[2]

C6_Witness ==
    /\ pc[1] = "done" /\ pc[2] = "done"
    /\ Len(dots[1]) >= 2
    /\ rejected[1] >= 1
    /\ doc[2] = Document(params, dots[1])

\* C7: the returned document has exactly one rect, one circle per accepted
\* dot in acceptance order, and two text elements; dot_count = 0 makes no
\* attempt and yields no circle.
C7_DocumentShape ==
    pc[1] = "done" =>
        /\ CountTag(doc[1], "rect") = 1
        /\ CountTag(doc[1], "text") = 2
        /\ SelectSeq(doc[1], IsCircle) = [k \in 1..Len(dots[1]) |-> Circle(dots[1][k])]
        /\ params.dot_count = 0 => attempts[1] = 0 /\ CountTag(doc[1], "circle") = 0

C7_Witness ==
    /\ pc[1] = "done"
    /\ Len(dots[1]) = 2
    /\ Circle(dots[1][1]) # Circle(dots[1][2])

\* the named entity of a character, or the character itself
Entity(c) ==
    CASE c = "&" -> Amp
      [] c = "<" -> Lt
      [] c = ">" -> Gt
      [] c = "\"" -> Quot
      [] c = "'" -> Apos
      [] OTHER -> <<c>>

RECURSIVE CharByChar(_)
CharByChar(s) == IF s = <<>> THEN <<>> ELSE Entity(Head(s)) \o CharByChar(Tail(s))

\* C8: _escape_xml replaces each of & < > " ' by its named entity and keeps
\* every other character, in order; introduced ampersands are not escaped again.
C8_EscapeCharByChar ==
    escPc = "return" => escaped = CharByChar(text)

C8_Witness ==
    /\ escPc = "return"
    /\ text = <<"<", "&", "a">>
    /\ escaped = <<"&", "l", "t", ";", "&", "a", "m", "p", ";", "a">>

\* C9: no attempt is made once dot_count dots are accepted, and the loop ends
\* with fewer than dot_count dots only after exactly dot_count * 40 attempts,
\* fewer than dot_count of which fell outside the safe zone.
C9_StopsAtFirst ==
    /\ [][Len(dots[1]) = params.dot_count => attempts[1]' = attempts[1]]_vars
    /\ []((pc[1] = "done" /\ Len(dots[1]) < params.dot_count) =>
            /\ attempts[1] = params.dot_count * 40
            /\ attempts[1] - rejected[1] < params.dot_count)

C9_Witness ==
    /\ pc[1] = "done"
    /\ Len(dots[1]) = params.dot_count
    /\ params.dot_count >= 1
    /\ rejected[1] >= 1
    /\ attempts[1] < params.dot_count * 40

\* C10: attempts = accepted + rejected <= dot_count * 40; a rejected sample
\* changes only the attempt counter and draws no radius variate; a safe zone
\* covering the canvas gives zero dots after exactly dot_count * 40 attempts.
C10_EverySampleCounts ==
    /\ [](/\ attempts[1] = Len(dots[1]) + rejected[1]
          /\ attempts[1] <= params.dot_count * 40
          /\ rnd[1] = 2 * rejected[1] + 3 * Len(dots[1])
          /\ (Covers(params) /\ pc[1] = "done") =>
                (dots[1] = <<>> /\ attempts[1] = params.dot_count * 40))
    /\ [][rejected[1]' # rejected[1] =>
            /\ dots' = dots
            /\ attempts[1]' = attempts[1] + 1
            /\ rnd[1]' = rnd[1] + 2]_vars

C10_Witness ==
    /\ Covers(params)
    /\ pc[1] = "done"
    /\ params.dot_count >= 2
    /\ rejected[1] = params.dot_count * 40

====
